---- MODULE Spec2Model ----
(***************************************************************************)
(* Comment-triggered automation delivery pipeline of cm-back:              *)
(* RabbitMQConsumer -> Worker.process_comment -> CommentProcessor, the     *)
(* DM / reply ledger behind it, and the automation CRUD surface            *)
(* (AutomationCreate / AutomationUpdate / AutomationRepository).            *)
(*                                                                         *)
(* Conventions.  A Python Optional is a sequence of length <= 1: None is   *)
(* <<>>, a present value x is <<x>>.  A Python str is a sequence of        *)
(* one-character strings, so "" is <<>>.                                   *)
(***************************************************************************)
EXTENDS Integers, Sequences, FiniteSets, TLC

\* ------------------------------------------------------------------ bounds
NumMsgs == 2          \* messages the upstream producer has put on the queue
MaxDeliveries == 3    \* deliveries (first ones and redeliveries) the broker makes
MaxTextLen == 3       \* longest comment text tried against the trigger
MaxKwLen == 2         \* longest keyword tried
MaxKeywords == 1      \* longest keyword list tried
MaxElements == 11     \* longest carousel tried at configuration time
MaxRepoOps == 3       \* create / update calls made on the repository
MaxLogRows == 2       \* rows of dm_sent_log the dedup check is tried against

\* ------------------------------------------------------- program constants
PrefetchCount == 10   \* set_qos(prefetch_count=10)
MaxCarousel == 10     \* len(carousel_elements) > 10 is rejected
MinButtons == 1       \* buttons: Field(..., min_length=1, ...)
MaxButtons == 3       \* buttons: Field(..., max_length=3)

\* ------------------------------------------------------------- Python glue
None == <<>>
Some(x) == <<x>>
IsNone(o) == o = <<>>
\* Python truthiness of an Optional[str] / Optional[list]: None and the
\* empty value are both falsy.
Truthy(o) == o # <<>> /\ o[1] # <<>>

Workers == {1, 2}
Msgs == 1..NumMsgs

\* ------------------------------------------------------------------- text
LowerChar(c) ==
    CASE c = "A" -> "a"
      [] c = "B" -> "b"
      [] c = "S" -> "s"
      [] OTHER -> c

\* str.lower()
Lower(s) == [i \in 1..Len(s) |-> LowerChar(s[i])]

\* Python `needle in hay` on strings: needle occurs as a contiguous run.
Contains(hay, needle) ==
    \E i \in 0..(Len(hay) - Len(needle)) :
        \A j \in 1..Len(needle) : hay[i + j] = needle[j]

\* str.strip() leaves nothing: every character is whitespace.
IsBlank(s) == \A i \in 1..Len(s) : s[i] = " "

\* ---------------------------------------------------------------- trigger
\* CommentProcessor._should_trigger with the mutation point of its keyword
\* comparison (keyword.lower() in comment_lower).
KeywordHit_NoLower(comment_lower, keyword) == Contains(comment_lower, keyword)

KeywordHit(comment_lower, keyword) == Contains(comment_lower, Lower(keyword))

\* Mutant of should_trigger: every automation triggers.
should_trigger_Always(comment_text, automation) == TRUE

should_trigger(comment_text, automation) ==
    IF automation.trigger_type = "all_comments" THEN TRUE
    ELSE IF automation.trigger_type = "keyword" THEN
        IF ~Truthy(automation.keywords) THEN FALSE
        ELSE LET comment_lower == Lower(comment_text)
                 kws == automation.keywords[1]
             IN \E k \in 1..Len(kws) : KeywordHit(comment_lower, kws[k])
    ELSE FALSE

\* ----------------------------------------------------------------- parser
\* A decoded JSON payload, reduced to what from_webhook_payload reads:
\*   raw      "dict" | "absent" | "notdict"   payload["raw_payload"]
\*   changes  Optional[list of change]        raw_payload["changes"]
\*   timestamp "valid" | "missing" | "bad"    payload["timestamp"]
\* and a change is [field, comment_id, text, commenter_id, username, media_id].
Change(field, cid, text, uid, uname, media) ==
    [field |-> field, comment_id |-> cid, text |-> text, commenter_id |-> uid,
     username |-> uname, media_id |-> media]

Payload(raw, changes, ts) == [raw |-> raw, changes |-> changes, timestamp |-> ts]

NoEvent == [ok |-> FALSE]

\* Mutant of from_webhook_payload: the field tag of the first change is not
\* checked.
from_webhook_payload_NoFieldCheck(payload) ==
    IF payload.raw = "notdict" THEN NoEvent
    ELSE LET changes == IF payload.raw = "absent" \/ IsNone(payload.changes)
                        THEN <<>> ELSE payload.changes[1]
         IN IF changes = <<>> THEN NoEvent
            ELSE LET change == changes[1] IN
                 IF payload.timestamp = "bad" THEN NoEvent
                 ELSE [ok |-> TRUE,
                       comment_id |-> change.comment_id,
                       comment_text |-> change.text,
                       commenter_id |-> change.commenter_id,
                       commenter_username |-> change.username,
                       media_id |-> change.media_id]

\* CommentEvent.from_webhook_payload: every exception inside the try block
\* (raw_payload that is no dict, a timestamp fromisoformat rejects) is caught
\* and collapses to None.
from_webhook_payload(payload) ==
    IF payload.raw = "notdict" THEN NoEvent
    ELSE LET changes == IF payload.raw = "absent" \/ IsNone(payload.changes)
                        THEN <<>> ELSE payload.changes[1]
         IN IF changes = <<>> THEN NoEvent
            ELSE LET change == changes[1] IN
                 IF change.field # "comments" THEN NoEvent
                 ELSE IF payload.timestamp = "bad" THEN NoEvent
                 ELSE [ok |-> TRUE,
                       comment_id |-> change.comment_id,
                       comment_text |-> change.text,
                       commenter_id |-> change.commenter_id,
                       commenter_username |-> change.username,
                       media_id |-> change.media_id]

\* ------------------------------------------------------------- automations
AutoIds == {1, 2}

\* One row of the automations table (models.Automation) with, as token_ok,
\* whether the linked account's stored access token decrypts.
Automation(id, post, active, trig, kws, mtype, tmpl, elems, ren, rtmpl, tok) ==
    [id |-> id, post_id |-> post, is_active |-> active, trigger_type |-> trig,
     keywords |-> kws, message_type |-> mtype, dm_message_template |-> tmpl,
     carousel_elements |-> elems, comment_reply_enabled |-> ren,
     comment_reply_template |-> rtmpl, token_ok |-> tok]

\* ------------------------------------------------------------------ state
VARIABLES
    automations,   \* automations table: id -> Optional[row]
    messages,      \* message id -> body put on the queue by the producer
    queue,         \* message id -> "ready" | "unacked" | "acked" (broker side)
    buffer,        \* worker -> messages delivered to it (prefetched), in order
    deliveries,    \* deliveries made by the broker so far
    decisions,     \* message id -> the ack / nack decisions it received
    pc,            \* worker -> position inside _process_message
    cur,           \* worker -> message being handled (0: none)
    event,         \* worker -> CommentEvent of the pass
    autos,         \* worker -> rows returned by _get_active_automations
    idx,           \* worker -> position of the for loop over autos
    profile,       \* worker -> commenter_profile of the current automation
    dm_success,    \* worker -> result of _send_dm
    reply_success, \* worker -> result of _reply_to_comment
    result,        \* worker -> outcome handed to the ack / nack decision
    trace,         \* worker -> operations of the current pass, in order
    pendingDm,     \* worker -> DMSentLog rows flushed in the open transaction
    pendingReply,  \* worker -> CommentReplyLog rows flushed, uncommitted
    dmLog,         \* committed rows of dm_sent_log, in commit order
    replyLog,      \* committed rows of comment_reply_log
    dmDispatched,  \* <<automation, post, commenter>> -> DMs the API accepted
    repoOps,       \* create / update calls made so far
    call,          \* last call of a configuration-time or pure operation
    conn           \* worker -> "open" | "stopping" (shutdown signalled) | "closed"

vars == <<automations, messages, queue, buffer, deliveries, decisions, pc, cur,
          event, autos, idx, profile, dm_success, reply_success, result, trace,
          pendingDm, pendingReply, dmLog, replyLog, dmDispatched, repoOps, call,
          conn>>

configVars == <<automations, repoOps, call>>
brokerVars == <<messages, queue, buffer, deliveries, decisions>>
passVars == <<event, autos, idx, profile, dm_success, reply_success>>
ledgerVars == <<pendingDm, pendingReply, dmLog, replyLog>>

NoCall == [fn |-> "none"]

\* ---------------------------------------------------------- ledger helpers
Tuple(aid, post, uid) == <<aid, post, uid>>

\* CommenterProfile(username=event.commenter_username): the other fields None.
UsernameOnly(username) ==
    [username |-> username, name |-> None, biography |-> None,
     followers_count |-> None, media_count |-> None,
     profile_picture_url |-> None]

\* The profile the Graph API returns for a commenter.
ApiProfile(username) ==
    [username |-> username, name |-> Some("Ann"), biography |-> Some("bio"),
     followers_count |-> Some(120), media_count |-> Some(7),
     profile_picture_url |-> Some("http://pic")]

\* DMSentLog(...) / CommentReplyLog(...): the two tables have the same columns.
LogEntry(automation_id, post_id, commenter_user_id, commenter_profile, comment_id, status) ==
    [automation_id |-> automation_id, post_id |-> post_id,
     commenter_user_id |-> commenter_user_id, comment_id |-> comment_id,
     status |-> status,
     commenter_username |-> commenter_profile.username,
     commenter_name |-> commenter_profile.name,
     commenter_biography |-> commenter_profile.biography,
     commenter_followers_count |-> commenter_profile.followers_count,
     commenter_media_count |-> commenter_profile.media_count,
     commenter_profile_picture_url |-> commenter_profile.profile_picture_url]

\* Rows a session sees: the committed ones and those it flushed itself.
VisibleDm(w) == dmLog \o pendingDm[w]

\* Mutant of SentRows: the commenter column is compared with the post id
\* (arguments of the query swapped).
SentRows_SwappedArgs(log, automation_id, post_id, commenter_user_id) ==
    {i \in 1..Len(log) :
        /\ log[i].automation_id = automation_id
        /\ log[i].post_id = commenter_user_id
        /\ log[i].commenter_user_id = post_id
        /\ log[i].status = "sent"}

\* Mutant of SentRows: the status condition is missing.
SentRows_AnyStatus(log, automation_id, post_id, commenter_user_id) ==
    {i \in 1..Len(log) :
        /\ log[i].automation_id = automation_id
        /\ log[i].post_id = post_id
        /\ log[i].commenter_user_id = commenter_user_id}

\* Mutant of SentRows: the automation condition is missing.
SentRows_AnyAutomation(log, automation_id, post_id, commenter_user_id) ==
    {i \in 1..Len(log) :
        /\ log[i].post_id = post_id
        /\ log[i].commenter_user_id = commenter_user_id
        /\ log[i].status = "sent"}

\* Rows of `log` the WHERE clause of _already_sent selects.
SentRows(log, automation_id, post_id, commenter_user_id) ==
    {i \in 1..Len(log) :
        /\ log[i].automation_id = automation_id
        /\ log[i].post_id = post_id
        /\ log[i].commenter_user_id = commenter_user_id
        /\ log[i].status = "sent"}

\* Result.scalar_one_or_none(): "none", "one", or MultipleResultsFound.
scalar_one_or_none(rows) ==
    IF Cardinality(rows) = 0 THEN "none"
    ELSE IF Cardinality(rows) = 1 THEN "one"
    ELSE "MultipleResultsFound"

\* CommentProcessor._already_sent: "raise" | TRUE-as-"yes" | "no".
already_sent(log, automation_id, post_id, commenter_user_id) ==
    LET r == scalar_one_or_none(SentRows(log, automation_id, post_id,
                                         commenter_user_id))
    IN IF r = "MultipleResultsFound" THEN "raise"
       ELSE IF r = "one" THEN "yes" ELSE "no"

\* The content validation of _process_automation (lines 183-198): TRUE when
\* there is something to send.
has_content(automation) ==
    /\ ~(automation.message_type = "text"
         /\ ~Truthy(automation.dm_message_template))
    /\ ~(automation.message_type = "carousel"
         /\ ~Truthy(automation.carousel_elements))

\* Mutant of reply_wanted: the DM result is not consulted.
reply_wanted_NoDmCheck(ok, automation) ==
    automation.comment_reply_enabled /\ Truthy(automation.comment_reply_template)

\* `dm_success and comment_reply_enabled and comment_reply_template`
reply_wanted(ok, automation) ==
    ok /\ automation.comment_reply_enabled
       /\ Truthy(automation.comment_reply_template)

Op(op, aid, ok) == [op |-> op, aid |-> aid, ok |-> ok]

\* ------------------------------------------------------------------ inputs
PostIds == {"p1", "p2"}
CommenterIds == {"u1", "u2"}
Tuples == AutoIds \X PostIds \X CommenterIds

Username(uid) == IF uid = "u1" THEN "alice" ELSE "bob"

\* Message bodies.  kind is what body.decode("utf-8") and json.loads make of
\* the bytes: "badutf8" (UnicodeDecodeError), "badjson" (JSONDecodeError) or
\* "json" with the decoded payload.
Body(kind, payload) == [kind |-> kind, payload |-> payload]

EventBody(cid, uid, text, post, ts) ==
    Body("json", Payload("dict",
         Some(<<Change("comments", cid, text, uid, Username(uid), post)>>), ts))

TextSale == <<"S", "a">>
TextOther == <<"b">>

NoChangesBody == Body("json", Payload("dict", None, "valid"))
EmptyChangesBody == Body("json", Payload("dict", Some(<<>>), "valid"))
NoRawBody == Body("json", Payload("absent", None, "valid"))
OtherFieldBody ==
    Body("json", Payload("dict",
         Some(<<Change("mentions", "cm1", TextSale, "u1", "alice", "p1"),
                Change("comments", "cm1", TextSale, "u1", "alice", "p1")>>),
         "valid"))
BadJsonBody == Body("badjson", Payload("absent", None, "missing"))
BadUtf8Body == Body("badutf8", Payload("absent", None, "missing"))

MalformedBodies == {NoChangesBody, EmptyChangesBody, NoRawBody, OtherFieldBody}

EventSale1 == EventBody("cm1", "u1", TextSale, "p1", "valid")
EventSale2 == EventBody("cm2", "u1", TextSale, "p1", "valid")
EventOther == EventBody("cm3", "u1", TextOther, "p1", "missing")
EventBadTs == EventBody("cm4", "u2", TextSale, "p1", "bad")
EventPost2 == EventBody("cm5", "u2", TextSale, "p2", "valid")

\* Bodies of the delivery runs: well-formed comment events.
EventBodies == <<EventSale1, EventSale2, EventOther, EventPost2>>

\* Bodies of the parsing runs: every malformed shape beside well-formed ones.
ParseBodies ==
    <<NoChangesBody, EmptyChangesBody, NoRawBody, OtherFieldBody, BadJsonBody,
      BadUtf8Body, EventBadTs, EventOther, EventSale1>>

\* Automations tables the pipeline is run against.
ReplyText == <<"t", "y">>
DmText == <<"h", "i">>
Card == [title |-> <<"c">>, buttons |-> 1]

TextAuto(id, ren, rtmpl, tok) ==
    Automation(id, "p1", TRUE, "all_comments", None, "text", Some(DmText),
               None, ren, rtmpl, tok)

KeywordCarousel ==
    Automation(2, "p1", TRUE, "keyword", Some(<<<<"s", "A">>>>),
               "carousel", None, Some(<<Card>>), FALSE, None, TRUE)
EmptyKeywords ==
    Automation(2, "p1", TRUE, "keyword", Some(<<>>),
               "text", Some(DmText), None, FALSE, None, TRUE)
NoTemplate ==
    Automation(2, "p1", TRUE, "all_comments", None,
               "text", None, None, TRUE, Some(ReplyText), TRUE)
NoElements ==
    Automation(2, "p1", TRUE, "all_comments", None,
               "carousel", Some(DmText), Some(<<>>), FALSE, None, TRUE)
Inactive ==
    Automation(2, "p1", FALSE, "all_comments", None,
               "text", Some(DmText), None, FALSE, None, TRUE)
OtherPost ==
    Automation(2, "p2", TRUE, "all_comments", None,
               "text", Some(DmText), None, FALSE, None, TRUE)

Table(first, second) == [a \in AutoIds |-> IF a = 1 THEN first ELSE second]

\* Every reply configuration and token state of automation 1, each beside
\* a different second automation.
Tables ==
    {Table(Some(TextAuto(1, TRUE, Some(ReplyText), TRUE)), None),
     Table(Some(TextAuto(1, TRUE, Some(ReplyText), TRUE)), Some(KeywordCarousel)),
     Table(Some(TextAuto(1, TRUE, None, TRUE)), Some(EmptyKeywords)),
     Table(Some(TextAuto(1, TRUE, Some(<<>>), TRUE)), Some(NoTemplate)),
     Table(Some(TextAuto(1, FALSE, Some(ReplyText), TRUE)), Some(NoElements)),
     Table(Some(TextAuto(1, FALSE, None, TRUE)), Some(Inactive)),
     Table(Some(TextAuto(1, TRUE, Some(ReplyText), FALSE)), Some(OtherPost))}

\* ------------------------------------------------------------------- Init
NoProfile == UsernameOnly("")

\* The producer's messages are drawn from the sequence `bodies`; the broker
\* may deliver ready messages in any order, so they are drawn in
\* non-decreasing position only.
Draws(bodies) ==
    {[m \in Msgs |-> bodies[k[m]]] :
        k \in {f \in [Msgs -> 1..Len(bodies)] :
                  \A i, j \in Msgs : i < j => f[i] <= f[j]}}

InitLedger(bodies, tables, logs) ==
    /\ automations \in tables
    /\ messages \in Draws(bodies)
    /\ queue = [m \in Msgs |-> "ready"]
    /\ buffer = [w \in Workers |-> <<>>]
    /\ deliveries = 0
    /\ decisions = [m \in Msgs |-> <<>>]
    /\ pc = [w \in Workers |-> "idle"]
    /\ cur = [w \in Workers |-> 0]
    /\ event = [w \in Workers |-> NoEvent]
    /\ autos = [w \in Workers |-> <<>>]
    /\ idx = [w \in Workers |-> 0]
    /\ profile = [w \in Workers |-> NoProfile]
    /\ dm_success = [w \in Workers |-> FALSE]
    /\ reply_success = [w \in Workers |-> FALSE]
    /\ result = [w \in Workers |-> "none"]
    /\ trace = [w \in Workers |-> <<>>]
    /\ pendingDm = [w \in Workers |-> <<>>]
    /\ pendingReply = [w \in Workers |-> <<>>]
    /\ dmLog \in logs
    /\ replyLog = <<>>
    /\ dmDispatched = [t \in Tuples |-> 0]
    /\ repoOps = 0
    /\ conn = [w \in Workers |-> "open"]

\* A start on an empty dm_sent_log.
InitPipeline(bodies, tables) == InitLedger(bodies, tables, {<<>>})

InitWith(bodies, tables) ==
    /\ InitPipeline(bodies, tables)
    /\ call = NoCall

\* ----------------------------------------------------------------- broker
\* The broker hands a ready message to a consumer, within its prefetch window.
Deliver(w, m) ==
    /\ queue[m] = "ready"
    /\ conn[w] # "closed"
    /\ deliveries < MaxDeliveries
    /\ Len(buffer[w]) + (IF cur[w] = 0 THEN 0 ELSE 1) < PrefetchCount
    /\ queue' = [queue EXCEPT ![m] = "unacked"]
    /\ buffer' = [buffer EXCEPT ![w] = Append(@, m)]
    /\ deliveries' = deliveries + 1
    /\ UNCHANGED <<messages, decisions, pc, cur, result, trace, dmDispatched>>
    /\ UNCHANGED <<passVars, ledgerVars, configVars, conn>>

\* --------------------------------------------------------------- consumer
Log(w, op, aid, ok) == trace' = [trace EXCEPT ![w] = Append(@, Op(op, aid, ok))]
Goto(w, label) == pc' = [pc EXCEPT ![w] = label]
Auto(w) == autos[w][idx[w]]

\* Mutant of handler_free: the next message is taken without awaiting the
\* handler of the one in hand.
handler_free_Always(w) == pc[w] # "stopped"

\* consume(), lines 70-74: `await self._process_message(...)` inside the
\* `async for`: the iterator is asked for the next message only when the
\* handler of the previous one has returned.
handler_free(w) == pc[w] = "idle"

\* consume() takes the next message off the iterator; _process_message decodes
\* it and, for a JSON body, enters Worker.process_comment and
\* CommentProcessor.process up to their first await (the parse).
process_message(w) ==
    /\ handler_free(w)
    /\ buffer[w] # <<>>
    /\ LET m == Head(buffer[w])
           body == messages[m]
           ev == from_webhook_payload(body.payload)
       IN /\ cur' = [cur EXCEPT ![w] = m]
          /\ buffer' = [buffer EXCEPT ![w] = Tail(@)]
          /\ IF body.kind = "badjson"
             THEN /\ result' = [result EXCEPT ![w] = "json_error"]
                  /\ Goto(w, "decide")
                  /\ UNCHANGED <<trace, event>>
             ELSE IF body.kind = "badutf8"
             THEN /\ result' = [result EXCEPT ![w] = "decode_error"]
                  /\ Goto(w, "decide")
                  /\ UNCHANGED <<trace, event>>
             ELSE /\ event' = [event EXCEPT ![w] = ev]
                  /\ Log(w, "parse", 0, ev.ok)
                  /\ Goto(w, IF ev.ok THEN "get_automations" ELSE "commit")
                  /\ UNCHANGED result
    /\ UNCHANGED <<messages, queue, deliveries, decisions, dmDispatched>>
    /\ UNCHANGED <<autos, idx, profile, dm_success, reply_success>>
    /\ UNCHANGED <<ledgerVars, configVars, conn>>

\* -------------------------------------------------------------- processor
AutoOrder == <<1, 2>>

\* Mutant of active_automations: the is_active condition is missing.
active_automations_IgnoreFlag(table, post_id) ==
    LET hit(a) == /\ table[a] # None
                  /\ table[a][1].post_id = post_id
        ids == SelectSeq(AutoOrder, hit)
    IN [i \in 1..Len(ids) |-> table[ids[i]][1]]

\* The SELECT of _get_active_automations: active rows targeting post_id.
active_automations(table, post_id) ==
    LET hit(a) == /\ table[a] # None
                  /\ table[a][1].post_id = post_id
                  /\ table[a][1].is_active
        ids == SelectSeq(AutoOrder, hit)
    IN [i \in 1..Len(ids) |-> table[ids[i]][1]]

\* process_comment, lines 47-50, entered by an exception of process: roll
\* back and return False; when the rollback raises too, the exception leaves
\* the callback.  Either way the session is closed and its flushed rows are
\* gone.
callback_outcome(rollback_ok) == IF rollback_ok THEN "false" ELSE "raised"

process_comment_except(w) ==
    /\ \E rollback_ok \in BOOLEAN :
           result' = [result EXCEPT ![w] = callback_outcome(rollback_ok)]
    /\ pendingDm' = [pendingDm EXCEPT ![w] = <<>>]
    /\ pendingReply' = [pendingReply EXCEPT ![w] = <<>>]
    /\ Goto(w, "decide")
    /\ UNCHANGED <<dmLog, replyLog>>

get_active_automations(w) ==
    /\ pc[w] = "get_automations"
    /\ LET rows == active_automations(automations, event[w].media_id)
       IN /\ autos' = [autos EXCEPT ![w] = rows]
          /\ idx' = [idx EXCEPT ![w] = 1]
          /\ Goto(w, IF rows = <<>> THEN "commit" ELSE "loop")
    /\ Log(w, "get_automations", 0, TRUE)
    /\ UNCHANGED <<cur, event, profile, dm_success, reply_success, result,
                   dmDispatched>>
    /\ UNCHANGED <<brokerVars, ledgerVars, configVars, conn>>

\* Head of the for loop of process, and the trigger check that opens
\* _process_automation.  (Line 140, an automation without account, cannot
\* happen: instagram_account_id is a non-null foreign key.)
loop_next(w) ==
    /\ pc[w] = "loop"
    /\ IF idx[w] > Len(autos[w])
       THEN /\ Goto(w, "commit")
            /\ UNCHANGED <<idx, trace>>
       ELSE IF ~should_trigger(event[w].comment_text, Auto(w))
       THEN /\ idx' = [idx EXCEPT ![w] = @ + 1]
            /\ Log(w, "skip_trigger", Auto(w).id, TRUE)
            /\ UNCHANGED pc
       ELSE /\ Goto(w, "dedup")
            /\ UNCHANGED <<idx, trace>>
    /\ UNCHANGED <<cur, event, autos, profile, dm_success, reply_success,
                   result, dmDispatched>>
    /\ UNCHANGED <<brokerVars, ledgerVars, configVars, conn>>

\* _process_automation, lines 175-198: the dedup query and the content
\* validation that follows it without an await.
dedup_check(w) ==
    /\ pc[w] = "dedup"
    /\ LET a == Auto(w)
           r == already_sent(VisibleDm(w), a.id, event[w].media_id,
                             event[w].commenter_id)
       IN IF r = "raise"
          THEN /\ Log(w, "dedup", a.id, FALSE)
               /\ process_comment_except(w)
               /\ UNCHANGED idx
          ELSE /\ IF r = "yes"
                  THEN /\ Log(w, "skip_sent", a.id, TRUE)
                       /\ idx' = [idx EXCEPT ![w] = @ + 1]
                       /\ Goto(w, "loop")
                  ELSE IF ~has_content(a)
                  THEN /\ Log(w, "skip_content", a.id, TRUE)
                       /\ idx' = [idx EXCEPT ![w] = @ + 1]
                       /\ Goto(w, "loop")
                  ELSE /\ Log(w, "dedup", a.id, TRUE)
                       /\ Goto(w, "profile")
                       /\ UNCHANGED idx
               /\ UNCHANGED <<result, ledgerVars>>
    /\ UNCHANGED <<cur, event, autos, profile, dm_success, reply_success,
                   dmDispatched>>
    /\ UNCHANGED <<brokerVars, configVars, conn>>

\* Mutant of fetched_profile: a failed fetch leaves empty strings and zero
\* counts instead of None.
fetched_profile_Defaults(username, ok) ==
    IF ok THEN ApiProfile(username)
    ELSE [username |-> username, name |-> Some(""), biography |-> Some(""),
          followers_count |-> Some(0), media_count |-> Some(0),
          profile_picture_url |-> None]

\* _fetch_commenter_profile: the token decryption and the API call are inside
\* the try; any failure leaves the username-only profile.
fetched_profile(username, ok) ==
    IF ok THEN ApiProfile(username) ELSE UsernameOnly(username)

fetch_commenter_profile(w) ==
    /\ pc[w] = "profile"
    /\ \E api_ok \in BOOLEAN :
         LET ok == Auto(w).token_ok /\ api_ok
         IN /\ profile' = [profile EXCEPT
                   ![w] = fetched_profile(event[w].commenter_username, ok)]
            /\ Log(w, "profile", Auto(w).id, ok)
    /\ Goto(w, "send_dm")
    /\ UNCHANGED <<cur, event, autos, idx, dm_success, reply_success, result,
                   dmDispatched>>
    /\ UNCHANGED <<brokerVars, ledgerVars, configVars, conn>>

\* Mutant of after_dm: a failed dispatch leaves _process_automation as an
\* exception does.
after_dm_RaiseOnFailure(ok, automation) ==
    IF ~ok THEN "decide"
    ELSE IF reply_wanted(ok, automation) THEN "reply" ELSE "log_dm"

\* Where _process_automation goes after _send_dm returned ok (line 207).
after_dm(ok, automation) ==
    IF reply_wanted(ok, automation) THEN "reply" ELSE "log_dm"

\* _send_dm: decrypt the token, call send_carousel or send_message; any
\* exception is caught and gives False.
send_dm(w) ==
    /\ pc[w] = "send_dm"
    /\ \E api_ok \in BOOLEAN :
         LET ok == Auto(w).token_ok /\ api_ok
             t == Tuple(Auto(w).id, event[w].media_id, event[w].commenter_id)
         IN /\ dm_success' = [dm_success EXCEPT ![w] = ok]
            /\ dmDispatched' = IF ok THEN [dmDispatched EXCEPT ![t] = @ + 1]
                               ELSE dmDispatched
            /\ Log(w, "send_dm", Auto(w).id, ok)
            /\ Goto(w, after_dm(ok, Auto(w)))
    /\ UNCHANGED <<cur, event, autos, idx, profile, reply_success, result>>
    /\ UNCHANGED <<brokerVars, ledgerVars, configVars, conn>>

\* _reply_to_comment: same shape as _send_dm.
reply_to_comment(w) ==
    /\ pc[w] = "reply"
    /\ \E api_ok \in BOOLEAN :
         LET ok == Auto(w).token_ok /\ api_ok
         IN /\ reply_success' = [reply_success EXCEPT ![w] = ok]
            /\ Log(w, "reply", Auto(w).id, ok)
    /\ Goto(w, "log_reply")
    /\ UNCHANGED <<cur, event, autos, idx, profile, dm_success, result,
                   dmDispatched>>
    /\ UNCHANGED <<brokerVars, ledgerVars, configVars, conn>>

\* Mutants of Status: the outcome of the dispatch is not recorded.
Status_AlwaysSent(ok) == "sent"

Status_AlwaysFailed(ok) == "failed"

Status(ok) == IF ok THEN "sent" ELSE "failed"

\* Mutant of add_flush: a row of the same automation is overwritten.
add_flush_Upsert(pending, row) ==
    IF pending # <<>> THEN [pending EXCEPT ![Len(pending)] = row]
    ELSE <<row>>

\* self.db.add(log_entry); await self.db.flush(): one more INSERT in the
\* open transaction.
add_flush(pending, row) == Append(pending, row)

\* _log_comment_reply: add the row and flush it into the open transaction.
log_comment_reply(w) ==
    /\ pc[w] = "log_reply"
    /\ pendingReply' = [pendingReply EXCEPT ![w] = add_flush(@,
           LogEntry(Auto(w).id, event[w].media_id, event[w].commenter_id,
                    profile[w], event[w].comment_id,
                    Status(reply_success[w])))]
    /\ Log(w, "log_reply", Auto(w).id, TRUE)
    /\ Goto(w, "log_dm")
    /\ UNCHANGED <<cur, result, dmDispatched, pendingDm, dmLog, replyLog>>
    /\ UNCHANGED <<brokerVars, passVars, configVars, conn>>

\* _log_dm_sent, the last statement of _process_automation.
log_dm_sent(w) ==
    /\ pc[w] = "log_dm"
    /\ pendingDm' = [pendingDm EXCEPT ![w] = add_flush(@,
           LogEntry(Auto(w).id, event[w].media_id, event[w].commenter_id,
                    profile[w], event[w].comment_id, Status(dm_success[w])))]
    /\ Log(w, "log_dm", Auto(w).id, TRUE)
    /\ idx' = [idx EXCEPT ![w] = @ + 1]
    /\ Goto(w, "loop")
    /\ UNCHANGED <<cur, event, autos, profile, dm_success, reply_success,
                   result, dmDispatched, pendingReply, dmLog, replyLog>>
    /\ UNCHANGED <<brokerVars, configVars, conn>>

\* ----------------------------------------------------------------- worker
\* The session has executed a statement, so a transaction is open on a
\* database connection (a commit of an untouched session does no I/O).
session_begun(w) ==
    \E i \in 1..Len(trace[w]) : trace[w][i].op = "get_automations"

DbOps == {"get_automations", "dedup", "log_reply", "log_dm", "commit"}

\* The database is unreachable at an execute, a flush or the commit: the
\* statement raises and the exception reaches the except clause of
\* process_comment.
DbFail(w) ==
    /\ pc[w] \in DbOps
    /\ pc[w] = "commit" => session_begun(w)
    /\ Log(w, pc[w], IF pc[w] \in {"get_automations", "commit"} THEN 0
                     ELSE Auto(w).id, FALSE)
    /\ process_comment_except(w)
    /\ UNCHANGED <<cur, dmDispatched>>
    /\ UNCHANGED <<brokerVars, passVars, configVars, conn>>

\* Mutant of session_commit: the reply rows are committed, the DM rows of
\* the same transaction are not.
session_commit_RepliesOnly(w) ==
    /\ pc[w] = "commit"
    /\ dmLog' = dmLog
    /\ replyLog' = replyLog \o pendingReply[w]
    /\ pendingDm' = [pendingDm EXCEPT ![w] = <<>>]
    /\ pendingReply' = [pendingReply EXCEPT ![w] = <<>>]
    /\ result' = [result EXCEPT ![w] = "true"]
    /\ Log(w, "commit", 0, TRUE)
    /\ Goto(w, "decide")
    /\ UNCHANGED <<cur, dmDispatched>>
    /\ UNCHANGED <<brokerVars, passVars, configVars, conn>>

\* process_comment, lines 45-46: commit, then return what process returned
\* (process only ever returns True).
session_commit(w) ==
    /\ pc[w] = "commit"
    /\ dmLog' = dmLog \o pendingDm[w]
    /\ replyLog' = replyLog \o pendingReply[w]
    /\ pendingDm' = [pendingDm EXCEPT ![w] = <<>>]
    /\ pendingReply' = [pendingReply EXCEPT ![w] = <<>>]
    /\ result' = [result EXCEPT ![w] = "true"]
    /\ Log(w, "commit", 0, TRUE)
    /\ Goto(w, "decide")
    /\ UNCHANGED <<cur, dmDispatched>>
    /\ UNCHANGED <<brokerVars, passVars, configVars, conn>>

\* Mutant of broker_decision: a callback that returned True is nacked.
broker_decision_NackOnTrue(outcome) ==
    CASE outcome = "json_error" -> "ack"
      [] OTHER -> "nack"

\* Mutant of broker_decision: a callback that returned False is acked.
broker_decision_AckOnFalse(outcome) ==
    CASE outcome = "true" -> "ack"
      [] outcome = "false" -> "ack"
      [] outcome = "json_error" -> "ack"
      [] OTHER -> "nack"

\* _process_message, lines 90-103: the broker decision for each outcome.
broker_decision(outcome) ==
    CASE outcome = "true" -> "ack"
      [] outcome = "false" -> "nack"
      [] outcome = "json_error" -> "ack"
      [] OTHER -> "nack"

\* ack removes the message; nack(requeue=True) makes it ready again.
decide(w) ==
    /\ pc[w] = "decide"
    /\ LET d == broker_decision(result[w])
       IN /\ decisions' = [decisions EXCEPT ![cur[w]] = Append(@, d)]
          /\ queue' = [queue EXCEPT
                 ![cur[w]] = IF d = "ack" THEN "acked" ELSE "ready"]
    /\ Goto(w, "idle")
    /\ cur' = [cur EXCEPT ![w] = 0]
    /\ result' = [result EXCEPT ![w] = "none"]
    /\ trace' = [trace EXCEPT ![w] = <<>>]
    /\ event' = [event EXCEPT ![w] = NoEvent]
    /\ autos' = [autos EXCEPT ![w] = <<>>]
    /\ idx' = [idx EXCEPT ![w] = 0]
    /\ profile' = [profile EXCEPT ![w] = NoProfile]
    /\ dm_success' = [dm_success EXCEPT ![w] = FALSE]
    /\ reply_success' = [reply_success EXCEPT ![w] = FALSE]
    /\ UNCHANGED <<messages, buffer, deliveries, dmDispatched>>
    /\ UNCHANGED <<ledgerVars, configVars, conn>>

\* One step of the consumer / worker / processor stack of process w.
WorkerStep(w) ==
    \/ process_message(w)
    \/ get_active_automations(w)
    \/ loop_next(w)
    \/ dedup_check(w)
    \/ fetch_commenter_profile(w)
    \/ send_dm(w)
    \/ reply_to_comment(w)
    \/ log_comment_reply(w)
    \/ log_dm_sent(w)
    \/ session_commit(w)
    \/ decide(w)

\* ---------------------------------------------------------- specifications
\* One worker process on the queue; the database may fail at any statement.
InitSingle == InitWith(EventBodies, Tables)

NextSingle ==
    \/ \E m \in Msgs : Deliver(1, m)
    \/ WorkerStep(1)
    \/ DbFail(1)

Spec == InitSingle /\ [][NextSingle]_vars

\* One worker process; bodies of every malformed shape.
ParseTables ==
    {Table(Some(TextAuto(1, TRUE, Some(ReplyText), TRUE)), None),
     Table(Some(TextAuto(1, FALSE, None, TRUE)), Some(KeywordCarousel))}

InitParse == InitWith(ParseBodies, ParseTables)

SpecParse == InitParse /\ [][NextSingle]_vars

\* Two worker processes on the same queue, each with its own session; the
\* database is reachable throughout.
MultiBodies == <<EventSale1, EventSale2, EventOther>>

MultiTables ==
    {Table(Some(TextAuto(1, TRUE, Some(ReplyText), TRUE)), None),
     Table(Some(TextAuto(1, FALSE, None, TRUE)), Some(KeywordCarousel))}

InitMulti == InitWith(MultiBodies, MultiTables)

NextMulti ==
    \E w \in Workers :
        \/ \E m \in Msgs : Deliver(w, m)
        \/ WorkerStep(w)

SpecMulti == InitMulti /\ [][NextMulti]_vars

\* ---------------------------------------------------- trigger, exhaustively
pipelineVars == <<messages, queue, buffer, deliveries, decisions, pc, cur,
                  event, autos, idx, profile, dm_success, reply_success,
                  result, trace, pendingDm, pendingReply, dmLog, replyLog,
                  dmDispatched, conn>>

SeqsUpTo(S, n) == UNION {[1..k -> S] : k \in 0..n}

TrigChars == {"a", "A", "b"}
TrigTexts == SeqsUpTo(TrigChars, MaxTextLen)
TrigKeywords == SeqsUpTo(TrigChars, MaxKwLen)
\* Keyword lists: None, every list up to MaxKeywords, and some longer ones
\* whose first keyword cannot match a short text.
TrigKeywordLists ==
    {None}
    \cup {Some(l) : l \in SeqsUpTo(TrigKeywords, MaxKeywords)}
    \cup {Some(<<<<"b", "b">>, k>>) : k \in TrigKeywords}
    \cup {Some(<<k, <<"b", "b">>>>) : k \in TrigKeywords}

TrigAuto(trig, kws) ==
    Automation(1, "p1", TRUE, trig, kws, "text", Some(DmText), None, FALSE,
               None, TRUE)

IdleTable == Table(Some(TextAuto(1, FALSE, None, TRUE)), None)

InitTrigger ==
    /\ InitPipeline(<<EventSale1>>, {IdleTable})
    /\ call \in {[fn |-> "should_trigger", text |-> t,
                  automation |-> TrigAuto(trig, kws), ret |-> "pending"] :
                    t \in TrigTexts, trig \in {"all_comments", "keyword"},
                    kws \in TrigKeywordLists}

\* One evaluation of _should_trigger on the drawn event text and automation.
ShouldTriggerCall ==
    /\ call.fn = "should_trigger"
    /\ call.ret = "pending"
    /\ call' = [call EXCEPT
           !.ret = IF should_trigger(call.text, call.automation)
                   THEN "true" ELSE "false"]
    /\ UNCHANGED <<automations, repoOps, pipelineVars>>

SpecTrigger == InitTrigger /\ [][ShouldTriggerCall]_vars

\* ------------------------------------------------- automation configuration
\* CarouselElement: title min_length=1, buttons 1..3 (a card is its title and
\* its number of buttons).
CardB(b) == [title |-> <<"c">>, buttons |-> b]

carousel_element_valid(e) ==
    /\ Len(e.title) >= 1
    /\ e.buttons >= MinButtons
    /\ e.buttons <= MaxButtons

Cards(n, b) == [i \in 1..n |-> CardB(b)]

\* Mutant of validate_message_content: the upper bound of the carousel is
\* not checked.
validate_message_content_NoUpper(data) ==
    IF data.message_type = "text"
    THEN Truthy(data.dm_message_template) /\ ~IsBlank(data.dm_message_template[1])
    ELSE Truthy(data.carousel_elements)

\* AutomationCreate.validate_message_content: TRUE when no ValueError.
validate_message_content(data) ==
    IF data.message_type = "text"
    THEN Truthy(data.dm_message_template) /\ ~IsBlank(data.dm_message_template[1])
    ELSE /\ Truthy(data.carousel_elements)
         /\ ~(Len(data.carousel_elements[1]) > MaxCarousel)

\* Field validation of AutomationCreate / AutomationUpdate: every carousel
\* element given must be a valid CarouselElement.
elements_valid(elems) ==
    IsNone(elems) \/ \A i \in 1..Len(elems[1]) : carousel_element_valid(elems[1][i])

automation_create_valid(data) ==
    elements_valid(data.carousel_elements) /\ validate_message_content(data)

TemplateChoices == {None, Some(<<>>), Some(<<" ">>), Some(DmText)}

CreateElementChoices ==
    {None, Some(<<CardB(0)>>), Some(<<CardB(4)>>)}
    \cup {Some(Cards(n, b)) : n \in 0..MaxElements, b \in {1, 3}}

CreateInputs ==
    [message_type : {"text", "carousel"},
     dm_message_template : TemplateChoices,
     carousel_elements : CreateElementChoices,
     comment_reply_enabled : {FALSE},
     comment_reply_template : {None},
     post_id : {"p1"},
     owns_account : BOOLEAN]

FreeIds == {a \in AutoIds : automations[a] = None}

\* The row AutomationRepository.create builds (lines 47-56): message_type
\* and carousel_elements of the request are not passed on, so the column
\* defaults (text, NULL) are stored.
created_row(id, data) ==
    Automation(id, data.post_id, TRUE, "all_comments", None, "text",
               data.dm_message_template, None, data.comment_reply_enabled,
               data.comment_reply_template, TRUE)

\* POST /automations: the request body is validated as AutomationCreate,
\* then AutomationRepository.create checks the account and inserts the row.
Create(data) ==
    /\ repoOps < MaxRepoOps
    /\ FreeIds # {}
    /\ repoOps' = repoOps + 1
    /\ LET id == CHOOSE a \in FreeIds : \A b \in FreeIds : a <= b
       IN IF ~automation_create_valid(data)
          THEN /\ call' = [fn |-> "create", data |-> data, id |-> 0,
                           ret |-> "validation_error"]
               /\ UNCHANGED automations
          ELSE IF ~data.owns_account
          THEN /\ call' = [fn |-> "create", data |-> data, id |-> 0,
                           ret |-> "value_error"]
               /\ UNCHANGED automations
          ELSE /\ call' = [fn |-> "create", data |-> data, id |-> id,
                           ret |-> "created"]
               /\ automations' = [automations EXCEPT
                      ![id] = Some(created_row(id, data))]
    /\ UNCHANGED pipelineVars

\* AutomationUpdate: every field optional, no model validator.  A field is
\* <<>> when unset and <<v>> when set (v may itself be None).
UpdateInputs ==
    [message_type : {<<>>, <<"text">>, <<"carousel">>},
     dm_message_template : {<<>>} \cup {<<t>> : t \in TemplateChoices},
     carousel_elements : {<<>>} \cup {<<e>> : e \in
         {None, Some(<<>>), Some(Cards(1, 1)), Some(Cards(MaxElements, 1))}}]

automation_update_valid(data) ==
    data.carousel_elements = <<>> \/ elements_valid(data.carousel_elements[1])

\* setattr for each field of model_dump(exclude_unset=True).
updated_row(row, data) ==
    [row EXCEPT
        !.message_type = IF data.message_type = <<>> THEN @
                         ELSE data.message_type[1],
        !.dm_message_template = IF data.dm_message_template = <<>> THEN @
                                ELSE data.dm_message_template[1],
        !.carousel_elements = IF data.carousel_elements = <<>> THEN @
                              ELSE data.carousel_elements[1]]

\* PUT /automations/{id}: AutomationRepository.update.
Update(id, data) ==
    /\ repoOps < MaxRepoOps
    /\ repoOps' = repoOps + 1
    /\ IF ~automation_update_valid(data)
       THEN /\ call' = [fn |-> "update", data |-> data, id |-> id,
                        ret |-> "validation_error"]
            /\ UNCHANGED automations
       ELSE IF automations[id] = None
       THEN /\ call' = [fn |-> "update", data |-> data, id |-> id,
                        ret |-> "not_found"]
            /\ UNCHANGED automations
       ELSE /\ call' = [fn |-> "update", data |-> data, id |-> id,
                        ret |-> "updated"]
            /\ automations' = [automations EXCEPT
                   ![id] = Some(updated_row(automations[id][1], data))]
    /\ UNCHANGED pipelineVars

EmptyTable == [a \in AutoIds |-> None]

InitRepo == InitWith(<<EventSale1>>, {EmptyTable})

NextRepo ==
    \/ \E data \in CreateInputs : Create(data)
    \/ \E id \in AutoIds, data \in UpdateInputs : Update(id, data)

SpecRepo == InitRepo /\ [][NextRepo]_vars

\* --------------------------------------------------- activate / deactivate
\* `automation.is_active = flag` of AutomationRepository.activate/deactivate.
set_active(row, flag) == [row EXCEPT !.is_active = flag]

\* POST /automations/{id}/activate and /deactivate: get_by_id, set the flag,
\* flush; the request's transaction commits when the handler returns.
SetActive(fn, id, flag) ==
    /\ repoOps < MaxRepoOps
    /\ repoOps' = repoOps + 1
    /\ IF automations[id] = None
       THEN /\ call' = [fn |-> fn, id |-> id, ret |-> "not_found"]
            /\ UNCHANGED automations
       ELSE /\ call' = [fn |-> fn, id |-> id, ret |-> "ok"]
            /\ automations' = [automations EXCEPT
                   ![id] = Some(set_active(automations[id][1], flag))]
    /\ UNCHANGED pipelineVars

Activate(id) == SetActive("activate", id, TRUE)

Deactivate(id) == SetActive("deactivate", id, FALSE)

\* One worker on the queue while automations are switched on and off.
ToggleBodies == <<EventSale1, EventPost2>>

ToggleTables ==
    {Table(Some(TextAuto(1, TRUE, Some(ReplyText), TRUE)), Some(OtherPost)),
     Table(Some(TextAuto(1, FALSE, None, TRUE)), Some(Inactive)),
     Table(Some(TextAuto(1, FALSE, None, TRUE)), None)}

InitToggle == InitWith(ToggleBodies, ToggleTables)

NextToggle ==
    \/ \E m \in Msgs : Deliver(1, m)
    \/ WorkerStep(1)
    \/ \E id \in AutoIds : Activate(id)
    \/ \E id \in AutoIds : Deactivate(id)

SpecToggle == InitToggle /\ [][NextToggle]_vars

\* ---------------------------------------------------------------- shutdown
\* Worker._handle_shutdown: the signal handler sets the shutdown event.
handle_shutdown(w) ==
    /\ conn[w] = "open"
    /\ conn' = [conn EXCEPT ![w] = "stopping"]
    /\ UNCHANGED <<configVars, brokerVars, passVars, ledgerVars>>
    /\ UNCHANGED <<pc, cur, result, trace, dmDispatched>>

\* Messages the broker holds as delivered to w and not yet settled.
unsettled(w) ==
    {m \in Msgs : \/ cur[w] = m
                  \/ \E i \in 1..Len(buffer[w]) : buffer[w][i] = m}

\* Worker.run, lines 84-95, once the shutdown event is set: cancel the consume
\* task, await it, disconnect.  The task is suspended at an await (any
\* position but the synchronous loop head); CancelledError is not an
\* Exception, so neither the except clause of process_comment nor those of
\* _process_message run: the session is closed uncommitted and the message in
\* hand gets no ack and no nack.  Closing the channel makes the broker requeue
\* every unsettled message.
stop(w) ==
    /\ conn[w] = "stopping"
    /\ pc[w] \notin {"loop", "stopped"}
    /\ conn' = [conn EXCEPT ![w] = "closed"]
    /\ pc' = [pc EXCEPT ![w] = "stopped"]
    /\ pendingDm' = [pendingDm EXCEPT ![w] = <<>>]
    /\ pendingReply' = [pendingReply EXCEPT ![w] = <<>>]
    /\ queue' = [m \in Msgs |-> IF m \in unsettled(w) THEN "ready" ELSE queue[m]]
    /\ buffer' = [buffer EXCEPT ![w] = <<>>]
    /\ UNCHANGED <<messages, deliveries, decisions, cur, result, trace,
                   dmLog, replyLog, dmDispatched>>
    /\ UNCHANGED <<passVars, configVars>>

\* One worker that receives a shutdown signal at any moment.
ShutdownBodies == <<EventSale1, EventSale2>>

ShutdownTables ==
    {Table(Some(TextAuto(1, TRUE, Some(ReplyText), TRUE)), None),
     Table(Some(TextAuto(1, FALSE, None, TRUE)), Some(KeywordCarousel))}

InitShutdown == InitWith(ShutdownBodies, ShutdownTables)

NextShutdown ==
    \/ \E m \in Msgs : Deliver(1, m)
    \/ WorkerStep(1)
    \/ handle_shutdown(1)
    \/ stop(1)

SpecShutdown == InitShutdown /\ [][NextShutdown]_vars

\* ------------------------------------------------- dedup check, exhaustively
\* Rows dm_sent_log can hold: one per dispatch attempt, Sent or Failed; the
\* table has no unique constraint, and two workers can each commit a Sent row
\* for one tuple.
DedupRows ==
    {LogEntry(t[1], t[2], t[3], UsernameOnly(Username(t[3])), "cm1", st) :
        t \in Tuples, st \in {"sent", "failed"}}

DedupLogs == SeqsUpTo(DedupRows, MaxLogRows)

InitDedup ==
    /\ InitPipeline(<<EventSale1>>, {IdleTable})
    /\ call \in {[fn |-> "already_sent", log |-> l, automation_id |-> t[1],
                  post_id |-> t[2], commenter_user_id |-> t[3],
                  ret |-> "pending"] : l \in DedupLogs, t \in Tuples}

\* One evaluation of _already_sent against the drawn table contents.
AlreadySentCall ==
    /\ call.fn = "already_sent"
    /\ call.ret = "pending"
    /\ call' = [call EXCEPT
           !.ret = already_sent(call.log, call.automation_id, call.post_id,
                                call.commenter_user_id)]
    /\ UNCHANGED <<automations, repoOps, pipelineVars>>

SpecDedup == InitDedup /\ [][AlreadySentCall]_vars

\* -------------------------------------------------------------- redelivery
\* Contents of dm_sent_log a worker can start on: empty, one Sent or one
\* Failed row of a tuple, and the two Sent rows of one tuple that two
\* concurrent workers leave behind (reached under SpecMulti).
SentRow(cid) ==
    LogEntry(1, "p1", "u1", ApiProfile(Username("u1")), cid, "sent")

FailedRow(cid) ==
    LogEntry(1, "p1", "u1", ApiProfile(Username("u1")), cid, "failed")

TwoSentLedger == <<SentRow("cm1"), SentRow("cm2")>>

RedeliverLogs == {<<>>, <<SentRow("cm1")>>, <<FailedRow("cm1")>>, TwoSentLedger}

RedeliverBodies == <<EventSale1, EventSale2, EventPost2>>

RedeliverTables ==
    {Table(Some(TextAuto(1, TRUE, Some(ReplyText), TRUE)), Some(OtherPost))}

InitRedeliver ==
    /\ InitLedger(RedeliverBodies, RedeliverTables, RedeliverLogs)
    /\ call = NoCall

\* One worker; the database is reachable and every API call returns.
NextRedeliver ==
    \/ \E m \in Msgs : Deliver(1, m)
    \/ WorkerStep(1)

\* The broker keeps delivering ready messages and the consumer loop keeps
\* running: a step that stays possible is eventually taken.
SpecRedeliver ==
    InitRedeliver /\ [][NextRedeliver]_vars /\ WF_vars(NextRedeliver)

\* ------------------------------------------------------------ claims C1-C7
\* The worker is inside a pass of CommentProcessor.process on a parsed event.
InPass(w) == cur[w] # 0 /\ event[w].ok

HasOp(w, op, aid, ok) == \E i \in 1..Len(trace[w]) : trace[w][i] = Op(op, aid, ok)

\* The row of the pass's automation list with this id.
RowOf(w, aid) == autos[w][CHOOSE k \in 1..Len(autos[w]) : autos[w][k].id = aid]

\* Committed DM records with status Sent for a tuple.
CommittedSent(aid, post, uid) ==
    {i \in 1..Len(dmLog) :
        /\ dmLog[i].automation_id = aid /\ dmLog[i].post_id = post
        /\ dmLog[i].commenter_user_id = uid /\ dmLog[i].status = "sent"}

\* C1: under at-least-once delivery to a single worker that does not crash,
\* with ledger writes and commits that may fail (nack and requeue), the
\* number of successful DM dispatches for one (automation, post, commenter)
\* tuple never exceeds one.
C1_AtMostOneDispatch == \A t \in Tuples : dmDispatched[t] <= 1

\* C2: once a Sent record for (A, P, C) is committed, a later invocation of
\* process for an event of the same tuple (same or different comment id)
\* dispatches no DM for A and writes no DM record for it.
C2_NoSecondDispatch ==
    \A w \in Workers :
        (InPass(w) /\ pc[w] # "decide") =>
            \A a \in AutoIds :
                CommittedSent(a, event[w].media_id, event[w].commenter_id) # {}
                => /\ \A i \in 1..Len(trace[w]) :
                          trace[w][i].aid = a =>
                              trace[w][i].op \notin {"send_dm", "log_dm", "profile"}
                   /\ \A k \in 1..Len(pendingDm[w]) :
                          pendingDm[w][k].automation_id # a
                   /\ pc[w] \in {"profile", "send_dm", "reply", "log_reply", "log_dm"}
                          => Auto(w).id # a

\* A second event of the tuple (another comment id) was skipped by the dedup
\* check after the first one's DM went out once.
C2_Witness ==
    /\ InPass(1)
    /\ event[1].comment_id = "cm2"
    /\ HasOp(1, "skip_sent", 1, TRUE)
    /\ pc[1] = "commit"
    /\ dmDispatched[Tuple(1, "p1", "u1")] = 1
    /\ \E i \in 1..Len(dmLog) : dmLog[i].comment_id = "cm1" /\ dmLog[i].status = "sent"

\* C3: with two workers on the queue, each in its own transaction, the DM log
\* never holds two Sent records for one (automation, post, commenter) tuple.
C3_AtMostOneSent ==
    \A t \in Tuples : Cardinality(CommittedSent(t[1], t[2], t[3])) <= 1

\* C4: the reply of an (event, automation) pair is dispatched only after the
\* DM dispatch of the same pass returned success and only with reply enabled
\* and a non-empty reply template; after a failed DM dispatch there is no
\* reply call and no reply record, whatever the reply configuration.
ReplyConfigured(row) ==
    row.comment_reply_enabled /\ row.comment_reply_template \notin {None, Some(<<>>)}

C4_ReplyGated ==
    \A w \in Workers :
        /\ \A i \in 1..Len(trace[w]) :
              LET e == trace[w][i] IN
              /\ e.op \in {"reply", "log_reply"} =>
                    /\ \E j \in 1..(i - 1) : trace[w][j] = Op("send_dm", e.aid, TRUE)
                    /\ ReplyConfigured(RowOf(w, e.aid))
              /\ (e.op = "send_dm" /\ ~e.ok) =>
                    /\ \A j \in 1..Len(trace[w]) :
                          trace[w][j].aid = e.aid =>
                              trace[w][j].op \notin {"reply", "log_reply"}
                    /\ \A k \in 1..Len(pendingReply[w]) :
                          pendingReply[w][k].automation_id # e.aid
                    /\ (i = Len(trace[w]) => pc[w] = "log_dm")
        /\ pc[w] \in {"reply", "log_reply"} =>
              /\ HasOp(w, "send_dm", Auto(w).id, TRUE)
              /\ ReplyConfigured(Auto(w))

\* A failed DM dispatch of an automation with reply enabled and a template,
\* whose pass went on to write the DM record.
C4_Witness ==
    /\ InPass(1)
    /\ HasOp(1, "send_dm", 1, FALSE)
    /\ HasOp(1, "log_dm", 1, TRUE)
    /\ ReplyConfigured(RowOf(1, 1))
    /\ RowOf(1, 1).token_ok

\* C5: when the flush of a DM or reply record, or the commit, raises, the
\* callback reports failure (returns False or raises) and the consumer nacks
\* the message with requeue: it is ready again and was not acked.
LedgerWriteFailed(w) ==
    \E i \in 1..Len(trace[w]) :
        trace[w][i].op \in {"log_dm", "log_reply", "commit"} /\ ~trace[w][i].ok

C5_NackOnLedgerFailure ==
    [][\A w \in Workers :
          (pc[w] = "decide" /\ pc'[w] = "idle" /\ LedgerWriteFailed(w)) =>
              /\ result[w] \in {"false", "raised"}
              /\ decisions'[cur[w]] = Append(decisions[cur[w]], "nack")
              /\ queue'[cur[w]] = "ready"]_vars

\* A pass whose DM went out and whose DM record flush raised reached the
\* broker decision.
C5_Witness ==
    /\ pc[1] = "decide"
    /\ HasOp(1, "send_dm", 1, TRUE)
    /\ HasOp(1, "log_dm", 1, FALSE)
    /\ result[1] = "false"

\* C6: a payload with no changes array, an empty changes array, or a first
\* change whose field is not "comments" parses to no event without raising;
\* process returns true and the message is acked, with no automation query,
\* no dispatch and no ledger record.
NoEventPayload(p) ==
    \/ p.raw = "absent"
    \/ p.raw = "dict" /\ p.changes = None
    \/ p.raw = "dict" /\ p.changes = Some(<<>>)
    \/ p.raw = "dict" /\ p.changes # None /\ p.changes # Some(<<>>)
         /\ p.changes[1][1].field # "comments"

NoEventMsg(m) == messages[m].kind = "json" /\ NoEventPayload(messages[m].payload)

C6_NoEventAcked ==
    /\ \A w \in Workers :
          (cur[w] # 0 /\ NoEventMsg(cur[w])) =>
              /\ ~event[w].ok
              /\ pc[w] \in {"commit", "decide"}
              /\ trace[w] \in {<<Op("parse", 0, FALSE)>>,
                               <<Op("parse", 0, FALSE), Op("commit", 0, TRUE)>>}
              /\ pendingDm[w] = <<>> /\ pendingReply[w] = <<>>
              /\ pc[w] = "decide" => result[w] = "true"
    /\ \A m \in Msgs :
          NoEventMsg(m) => \A i \in 1..Len(decisions[m]) : decisions[m][i] = "ack"

\* A message whose first change is not a comments change (a comments change
\* follows it) was decided, and so was one without a changes array.
C6_Witness ==
    \E m \in Msgs :
        /\ messages[m] \in {OtherFieldBody, NoChangesBody}
        /\ decisions[m] = <<"ack">>
        /\ queue[m] = "acked"

\* C7: when the profile fetch fails (token decryption included) the pass goes
\* on to the DM dispatch, and the DM record it writes carries the event's
\* username with name, biography, follower count, media count and avatar URL
\* empty.
C7_BestEffortProfile ==
    \A w \in Workers :
        \A i \in 1..Len(trace[w]) :
            (trace[w][i].op = "profile" /\ ~trace[w][i].ok) =>
                LET aid == trace[w][i].aid IN
                /\ IF i = Len(trace[w]) THEN pc[w] = "send_dm"
                   ELSE trace[w][i + 1].op = "send_dm" /\ trace[w][i + 1].aid = aid
                /\ (HasOp(w, "log_dm", aid, TRUE) /\ pc[w] # "decide") =>
                       \E k \in 1..Len(pendingDm[w]) :
                           pendingDm[w][k].automation_id = aid
                /\ \A k \in 1..Len(pendingDm[w]) :
                       pendingDm[w][k].automation_id = aid =>
                           /\ pendingDm[w][k].commenter_username
                                  = event[w].commenter_username
                           /\ pendingDm[w][k].commenter_name = None
                           /\ pendingDm[w][k].commenter_biography = None
                           /\ pendingDm[w][k].commenter_followers_count = None
                           /\ pendingDm[w][k].commenter_media_count = None
                           /\ pendingDm[w][k].commenter_profile_picture_url = None

\* The profile API failed with a good token, the DM went out and its record
\* is flushed.
C7_Witness ==
    /\ InPass(1)
    /\ HasOp(1, "profile", 1, FALSE)
    /\ HasOp(1, "send_dm", 1, TRUE)
    /\ HasOp(1, "log_dm", 1, TRUE)
    /\ Len(pendingDm[1]) > 0
    /\ pendingDm[1][1].commenter_username = "alice"

\* ----------------------------------------------------------- claims C8-C10
\* needle occurs in hay as a substring.
SubstringOf(needle, hay) ==
    \E i \in 1..(Len(hay) + 1) :
        /\ i + Len(needle) - 1 <= Len(hay)
        /\ SubSeq(hay, i, i + Len(needle) - 1) = needle

\* C8: the trigger check is true for every event when the trigger is
\* AllComments; for a Keyword trigger it is true iff the lower-cased comment
\* text contains at least one lower-cased keyword as a substring, and false
\* when the keyword set is empty or absent.
C8_TriggerCorrect ==
    (call.fn = "should_trigger" /\ call.ret # "pending") =>
        LET a == call.automation
            expected ==
                \/ a.trigger_type = "all_comments"
                \/ /\ a.trigger_type = "keyword"
                   /\ a.keywords # None
                   /\ \E k \in 1..Len(a.keywords[1]) :
                          SubstringOf(Lower(a.keywords[1][k]), Lower(call.text))
        IN /\ call.ret = (IF expected THEN "true" ELSE "false")
           /\ (a.trigger_type = "keyword" /\ a.keywords \in {None, Some(<<>>)})
                 => call.ret = "false"

\* A keyword written in another case than the comment matched, as second
\* keyword of its list.
C8_Witness ==
    /\ call.fn = "should_trigger"
    /\ call.ret = "true"
    /\ call.text = <<"a", "a", "b">>
    /\ call.automation.trigger_type = "keyword"
    /\ call.automation.keywords = Some(<<<<"b", "b">>, <<"A", "b">>>>)

\* C9: creating an automation with message type Carousel is rejected with 0
\* elements (or none given) or more than 10, and accepted with 1 to 10
\* elements of 1 to 3 buttons each.
C9_CarouselBounds ==
    (call.fn = "create" /\ call.data.message_type = "carousel") =>
        LET elems == call.data.carousel_elements
            n == IF elems = None THEN 0 ELSE Len(elems[1])
            buttons_ok == \A i \in 1..n :
                              elems[1][i].buttons >= 1 /\ elems[1][i].buttons <= 3
        IN /\ (n = 0 \/ n > 10) => call.ret = "validation_error"
           /\ (n >= 1 /\ n <= 10 /\ buttons_ok) => call.ret # "validation_error"
           /\ (n >= 1 /\ n <= 10 /\ buttons_ok /\ call.data.owns_account) =>
                  /\ call.ret = "created"
                  /\ automations[call.id] # None

\* A carousel of 10 cards with 3 buttons each was accepted.
C9_Witness ==
    /\ call.fn = "create"
    /\ call.data.message_type = "carousel"
    /\ call.data.carousel_elements = Some(Cards(10, 3))
    /\ call.ret = "created"

\* C10: after any sequence of create and update operations every stored
\* automation of type Text has a non-empty DM template and every stored
\* automation of type Carousel has between 1 and 10 elements.
C10_StoredContentValid ==
    \A a \in AutoIds :
        automations[a] # None =>
            LET row == automations[a][1] IN
            /\ row.message_type = "text" =>
                   row.dm_message_template \notin {None, Some(<<>>)}
            /\ row.message_type = "carousel" =>
                   /\ row.carousel_elements # None
                   /\ Len(row.carousel_elements[1]) >= 1
                   /\ Len(row.carousel_elements[1]) <= 10

\* ---------------------------------------------------------- claims C11-C20
\* C11: an automation whose active flag is false when an event is matched,
\* or which targets another post than the event's, is never matched: the
\* automation lookup of a pass returns only rows that are active and on the
\* event's post at that moment, and the pass fetches no profile, dispatches
\* no DM or reply and writes no ledger record for any other automation.
\* A deactivated automation is matched again only after activate.
C11_InactiveNeverMatched ==
    /\ [][\A w \in Workers :
            (pc[w] = "get_automations" /\ pc'[w] \in {"loop", "commit"}) =>
                \A k \in 1..Len(autos'[w]) :
                    LET id == autos'[w][k].id IN
                    /\ automations[id] # None
                    /\ automations[id][1].is_active
                    /\ automations[id][1].post_id = event[w].media_id]_vars
    /\ [](\A w \in Workers :
            LET matched == {autos[w][k].id : k \in 1..Len(autos[w])} IN
            /\ \A i \in 1..Len(trace[w]) :
                   trace[w][i].aid # 0 => trace[w][i].aid \in matched
            /\ \A k \in 1..Len(pendingDm[w]) :
                   pendingDm[w][k].automation_id \in matched
            /\ \A k \in 1..Len(pendingReply[w]) :
                   pendingReply[w][k].automation_id \in matched)

\* Automation 1 sent a DM for a first event, was deactivated, and the lookup
\* of a second event on its post returned nothing.
C11_Witness ==
    /\ automations[1] # None
    /\ ~automations[1][1].is_active
    /\ \E i \in 1..Len(dmLog) : dmLog[i].automation_id = 1
    /\ InPass(1)
    /\ event[1].media_id = "p1"
    /\ HasOp(1, "get_automations", 0, TRUE)
    /\ autos[1] = <<>>
    /\ pc[1] = "commit"

\* Operations that reach the database, and a pass in which one of them raised.
InfraOps == {"get_automations", "dedup", "log_reply", "log_dm", "commit"}

InfraFailure(w) ==
    \E i \in 1..Len(trace[w]) : trace[w][i].op \in InfraOps /\ ~trace[w][i].ok

CountOps(w, op, aid) ==
    Cardinality({i \in 1..Len(trace[w]) :
                    trace[w][i].op = op /\ trace[w][i].aid = aid})

PendingRows(pending, aid) ==
    {k \in 1..Len(pending) : pending[k].automation_id = aid}

\* The step in which the consumer settles the message of worker w, and the
\* message being acked in it.
Deciding(w) == pc[w] = "decide" /\ pc'[w] = "idle"

PassAcked(w) ==
    /\ result[w] = "true"
    /\ decisions'[cur[w]] = Append(decisions[cur[w]], "ack")
    /\ queue'[cur[w]] = "acked"

Committing(w) == pc[w] = "commit" /\ pc'[w] = "decide" /\ result'[w] = "true"

\* C12: when the DM dispatch fails, the pass writes exactly one DM record with
\* status Failed for the attempt, does not dispatch the DM again in the same
\* pass, and (the database being reachable) the message is acked, the Failed
\* record being committed.
C12_FailedDmRecorded ==
    /\ [](\A w \in Workers : \A a \in AutoIds :
            HasOp(w, "send_dm", a, FALSE) =>
                /\ CountOps(w, "send_dm", a) = 1
                /\ trace[w][Len(trace[w])] = Op("send_dm", a, FALSE)
                       => pc[w] = "log_dm" /\ PendingRows(pendingDm[w], a) = {}
                /\ (HasOp(w, "log_dm", a, TRUE) /\ pc[w] # "decide") =>
                       /\ Cardinality(PendingRows(pendingDm[w], a)) = 1
                       /\ \A k \in PendingRows(pendingDm[w], a) :
                              /\ pendingDm[w][k].status = "failed"
                              /\ pendingDm[w][k].comment_id = event[w].comment_id)
    /\ [][\A w \in Workers :
            /\ Committing(w) => dmLog' = dmLog \o pendingDm[w]
            /\ (Deciding(w) /\ ~InfraFailure(w)
                  /\ \E a \in AutoIds : HasOp(w, "send_dm", a, FALSE))
                 => PassAcked(w)]_vars

\* The DM API refused a DM (the token being good); the pass committed a Failed
\* record and is about to be acked.
C12_Witness ==
    /\ pc[1] = "decide"
    /\ result[1] = "true"
    /\ HasOp(1, "send_dm", 1, FALSE)
    /\ RowOf(1, 1).token_ok
    /\ CountOps(1, "log_dm", 1) = 1
    /\ \E i \in 1..Len(dmLog) :
           /\ dmLog[i].status = "failed"
           /\ dmLog[i].comment_id = event[1].comment_id

\* The automation's trigger is not met by the comment text.
NotTriggered(row, text) ==
    /\ row.trigger_type = "keyword"
    /\ \/ row.keywords \in {None, Some(<<>>)}
       \/ \A k \in 1..Len(row.keywords[1]) :
              ~SubstringOf(Lower(row.keywords[1][k]), Lower(text))

NoActiveTarget(post) ==
    \A a \in AutoIds :
        \/ automations[a] = None
        \/ ~automations[a][1].is_active
        \/ automations[a][1].post_id # post

\* Matched automations of the pass that must be skipped: trigger not met, or
\* a Sent record committed for the tuple.
SkippedIds(w) ==
    {autos[w][k].id : k \in
        {j \in 1..Len(autos[w]) :
            \/ NotTriggered(autos[w][j], event[w].comment_text)
            \/ CommittedSent(autos[w][j].id, event[w].media_id,
                             event[w].commenter_id) # {}}}

\* C13: when no active automation targets the event's post, when an
\* automation's trigger is not met, or when a Sent record exists for the
\* tuple, the pass fetches no profile, dispatches no DM and no reply for that
\* automation and adds nothing to either log for it; the message is acked
\* (the database being reachable).
C13_SkipHasNoEffect ==
    /\ [](\A w \in Workers :
            (InPass(w) /\ pc[w] # "decide") =>
                /\ (HasOp(w, "get_automations", 0, TRUE)
                      /\ NoActiveTarget(event[w].media_id)) =>
                       /\ autos[w] = <<>>
                       /\ pc[w] = "commit"
                       /\ trace[w] = <<Op("parse", 0, TRUE),
                                       Op("get_automations", 0, TRUE)>>
                       /\ pendingDm[w] = <<>> /\ pendingReply[w] = <<>>
                /\ \A a \in SkippedIds(w) :
                       /\ \A i \in 1..Len(trace[w]) :
                              trace[w][i].aid = a =>
                                  trace[w][i].op \notin
                                      {"profile", "send_dm", "reply",
                                       "log_reply", "log_dm"}
                       /\ PendingRows(pendingDm[w], a) = {}
                       /\ PendingRows(pendingReply[w], a) = {}
                       /\ pc[w] \in {"profile", "send_dm", "reply",
                                     "log_reply", "log_dm"} => Auto(w).id # a)
    /\ [][\A w \in Workers :
            /\ (Committing(w) /\ InPass(w)) =>
                   /\ \A i \in (Len(dmLog) + 1)..Len(dmLog') :
                          dmLog'[i].automation_id \notin SkippedIds(w)
                   /\ \A i \in (Len(replyLog) + 1)..Len(replyLog') :
                          replyLog'[i].automation_id \notin SkippedIds(w)
                   /\ SkippedIds(w) = {autos[w][k].id : k \in 1..Len(autos[w])}
                          => dmLog' = dmLog /\ replyLog' = replyLog
            /\ (Deciding(w) /\ InPass(w) /\ ~InfraFailure(w)
                  /\ \/ autos[w] = <<>>
                     \/ \E i \in 1..Len(trace[w]) :
                            trace[w][i].op \in {"skip_trigger", "skip_sent"})
                 => PassAcked(w)]_vars

\* A pass over two matched automations: the first already has a Sent record
\* for the commenter, the second's keyword is not in the comment; nothing was
\* done for either and the pass is committing.
C13_Witness ==
    /\ InPass(1)
    /\ pc[1] = "commit"
    /\ Len(autos[1]) = 2
    /\ SkippedIds(1) = {1, 2}
    /\ CommittedSent(1, "p1", "u1") # {}
    /\ NotTriggered(autos[1][2], event[1].comment_text)
    /\ autos[1][2].keywords # Some(<<>>)

\* Messages handed to a worker that have no decision yet.
InHand(w) == Len(buffer[w]) + (IF cur[w] = 0 THEN 0 ELSE 1)

RECURSIVE SumOver(_, _)
SumOver(f, S) ==
    IF S = {} THEN 0
    ELSE LET x == CHOOSE y \in S : TRUE IN f[x] + SumOver(f, S \ {x})

\* C14: every message handed to the message handler receives exactly one
\* broker decision: ack when the callback returned true, nack with requeue
\* when it returned false or raised; no handling yields two decisions, none
\* is given outside a handling, and a handling in progress can always take
\* its next step towards the decision.
C14_ExactlyOneDecision ==
    /\ [][/\ \A w \in Workers :
               Deciding(w) =>
                   LET m == cur[w] IN
                   /\ m # 0
                   /\ Len(decisions'[m]) = Len(decisions[m]) + 1
                   /\ \A i \in 1..Len(decisions[m]) :
                          decisions'[m][i] = decisions[m][i]
                   /\ result[w] = "true" =>
                          /\ decisions'[m][Len(decisions'[m])] = "ack"
                          /\ queue'[m] = "acked"
                   /\ result[w] \in {"false", "raised"} =>
                          /\ decisions'[m][Len(decisions'[m])] = "nack"
                          /\ queue'[m] = "ready"
                   /\ \A n \in Msgs \ {m} : decisions'[n] = decisions[n]
                   /\ cur'[w] = 0
          /\ (\A w \in Workers : ~Deciding(w)) => decisions' = decisions]_vars
    /\ [](/\ \A m \in Msgs : \A i \in 1..(Len(decisions[m]) - 1) :
                 decisions[m][i] = "nack"
          /\ SumOver([m \in Msgs |-> Len(decisions[m])], Msgs)
               + SumOver([w \in Workers |-> InHand(w)], Workers) = deliveries
          /\ \A w \in Workers :
                 /\ cur[w] # 0 => ENABLED WorkerStep(w)
                 /\ (cur[w] = 0 /\ buffer[w] # <<>>) => ENABLED WorkerStep(w)
          /\ \A m \in Msgs :
                 /\ queue[m] = "acked" <=>
                        (decisions[m] # <<>>
                           /\ decisions[m][Len(decisions[m])] = "ack")
                 /\ queue[m] = "unacked" <=>
                        \E w \in Workers :
                            \/ cur[w] = m
                            \/ \E i \in 1..Len(buffer[w]) : buffer[w][i] = m)

\* A message was nacked after its callback failed, redelivered, and acked.
C14_Witness ==
    \E m \in Msgs :
        /\ messages[m].kind = "json"
        /\ decisions[m] = <<"nack", "ack">>
        /\ queue[m] = "acked"

\* C15: a message whose body can never be decoded into a JSON document
\* (malformed JSON text, or bytes that are not valid UTF-8) is acked and
\* dropped: it is never nacked with requeue.
C15_UndecodableAcked ==
    \A m \in Msgs :
        messages[m].kind \in {"badjson", "badutf8"} =>
            \A i \in 1..Len(decisions[m]) : decisions[m][i] = "ack"

\* C16: when a shutdown signal arrives while a message is mid-processing, the
\* message in hand is not cancelled: the channel and connection are closed
\* only after it received its ack or nack.
C16_InFlightFinishes ==
    \A w \in Workers : conn[w] = "closed" => cur[w] = 0

\* C17: the dedup check returns true iff the DM log holds at least one Sent
\* record for exactly the tuple asked for, for any number of such records and
\* without raising, and false when the tuple has only Failed records or none.
C17_DedupIffSent ==
    (call.fn = "already_sent" /\ call.ret # "pending") =>
        LET hit == \E i \in 1..Len(call.log) :
                       /\ call.log[i].automation_id = call.automation_id
                       /\ call.log[i].post_id = call.post_id
                       /\ call.log[i].commenter_user_id = call.commenter_user_id
                       /\ call.log[i].status = "sent"
        IN call.ret = (IF hit THEN "yes" ELSE "no")

\* C18: when the DM dispatch succeeds and the reply dispatch that follows
\* fails, the DM is not dispatched again, the DM record of the pass has status
\* Sent, the reply record has status Failed, and the message is acked (the
\* database being reachable).
C18_ReplyFailureKeepsDm ==
    /\ [](\A w \in Workers : \A a \in AutoIds :
            (HasOp(w, "send_dm", a, TRUE) /\ HasOp(w, "reply", a, FALSE)) =>
                /\ CountOps(w, "send_dm", a) = 1
                /\ CountOps(w, "reply", a) = 1
                /\ trace[w][Len(trace[w])] = Op("reply", a, FALSE)
                       => pc[w] = "log_reply"
                /\ (HasOp(w, "log_reply", a, TRUE) /\ pc[w] # "decide") =>
                       /\ Cardinality(PendingRows(pendingReply[w], a)) = 1
                       /\ \A k \in PendingRows(pendingReply[w], a) :
                              pendingReply[w][k].status = "failed"
                /\ (HasOp(w, "log_dm", a, TRUE) /\ pc[w] # "decide") =>
                       /\ Cardinality(PendingRows(pendingDm[w], a)) = 1
                       /\ \A k \in PendingRows(pendingDm[w], a) :
                              pendingDm[w][k].status = "sent")
    /\ [][\A w \in Workers :
            /\ Committing(w) => /\ dmLog' = dmLog \o pendingDm[w]
                                /\ replyLog' = replyLog \o pendingReply[w]
            /\ (Deciding(w) /\ ~InfraFailure(w)
                  /\ \E a \in AutoIds : /\ HasOp(w, "send_dm", a, TRUE)
                                        /\ HasOp(w, "reply", a, FALSE))
                 => PassAcked(w)]_vars

\* The DM went out, the reply API refused the reply; both records are
\* committed and the message is about to be acked.
C18_Witness ==
    /\ pc[1] = "decide"
    /\ result[1] = "true"
    /\ HasOp(1, "send_dm", 1, TRUE)
    /\ HasOp(1, "reply", 1, FALSE)
    /\ \E i \in 1..Len(dmLog) :
           dmLog[i].status = "sent" /\ dmLog[i].comment_id = event[1].comment_id
    /\ \E i \in 1..Len(replyLog) :
           /\ replyLog[i].status = "failed"
           /\ replyLog[i].comment_id = event[1].comment_id

\* Calls to the Graph API made by a pass.
ApiOps == {"profile", "send_dm", "reply"}

IsPrefix(s, t) == Len(s) <= Len(t) /\ \A i \in 1..Len(s) : s[i] = t[i]

Attempts(w, op) ==
    Cardinality({i \in 1..Len(trace[w]) : trace[w][i].op = op})

\* C20: both ledger logs are append-only with one record per attempt: the
\* commit of a pass that ends in an ack adds as many DM records as the pass
\* made DM dispatch attempts and as many reply records as it made reply
\* attempts, and no step changes or removes a record already in either log.
C20_AppendOnlyOnePerAttempt ==
    [][/\ IsPrefix(dmLog, dmLog')
       /\ IsPrefix(replyLog, replyLog')
       /\ \A w \in Workers :
              Committing(w) =>
                  /\ Len(dmLog') = Len(dmLog) + Attempts(w, "send_dm")
                  /\ Len(replyLog') = Len(replyLog) + Attempts(w, "reply")
       /\ (\A w \in Workers : ~Committing(w)) =>
              dmLog' = dmLog /\ replyLog' = replyLog]_vars

\* A pass over two automations made two DM attempts and one reply attempt and
\* committed two DM records and one reply record.
C20_Witness ==
    /\ pc[1] = "decide"
    /\ result[1] = "true"
    /\ Attempts(1, "send_dm") = 2
    /\ Attempts(1, "reply") = 1
    /\ Len(dmLog) = 2
    /\ Len(replyLog) = 1

\* ---------------------------------------------------------- claims C21-C30
\* C21: the transaction scope is one automation's processing step: when the
\* step of a matched automation has completed with its DM dispatched and its
\* record written, a database failure during the step of another automation
\* of the same pass does not undo that record: it is in the DM log when the
\* message is nacked, for the dedup check of the redelivery to find.
C21_EarlierRecordSurvives ==
    \A w \in Workers :
        (InPass(w) /\ pc[w] = "decide" /\ result[w] \in {"false", "raised"}) =>
            \A a \in AutoIds :
                (/\ HasOp(w, "send_dm", a, TRUE)
                 /\ HasOp(w, "log_dm", a, TRUE)
                 /\ trace[w][Len(trace[w])].aid \in AutoIds \ {a})
                => CommittedSent(a, event[w].media_id, event[w].commenter_id) # {}

\* C22: for every matched automation whose trigger is met and for whose tuple
\* no Sent record exists, the pass fetches the profile, then makes exactly one
\* DM dispatch attempt and writes exactly one DM record: process returns only
\* after having done so for each such automation.
C22_NotSentAlwaysDispatches ==
    \A w \in Workers :
        (InPass(w) /\ pc[w] = "commit") =>
            \A k \in 1..Len(autos[w]) :
                LET row == autos[w][k] IN
                (/\ ~NotTriggered(row, event[w].comment_text)
                 /\ CommittedSent(row.id, event[w].media_id,
                                  event[w].commenter_id) = {})
                => /\ CountOps(w, "profile", row.id) = 1
                   /\ CountOps(w, "send_dm", row.id) = 1
                   /\ Cardinality(PendingRows(pendingDm[w], row.id)) = 1
                   /\ \E i, j \in 1..Len(trace[w]) :
                          /\ i < j
                          /\ trace[w][i].op = "profile" /\ trace[w][i].aid = row.id
                          /\ trace[w][j].op = "send_dm" /\ trace[w][j].aid = row.id

\* C23: when the DM dispatch succeeds, the DM record with status Sent is
\* written before the reply is dispatched: every reply dispatch of a pass is
\* preceded in it by the DM record of the same automation.
C23_DmRecordBeforeReply ==
    \A w \in Workers :
        \A i \in 1..Len(trace[w]) :
            trace[w][i].op = "reply" =>
                \E j \in 1..(i - 1) :
                    trace[w][j] = Op("log_dm", trace[w][i].aid, TRUE)

\* The payload's first change is a comments change.
CommentsPayload(p) ==
    /\ p.raw = "dict"
    /\ p.changes \notin {None, Some(<<>>)}
    /\ p.changes[1][1].field = "comments"

\* C24: a payload whose first change is a well-formed comments change but
\* whose timestamp is missing or cannot be parsed still yields a comment event
\* and is processed like any other: the automation lookup follows the parse.
C24_TimestampFallback ==
    \A w \in Workers :
        (/\ cur[w] # 0
         /\ messages[cur[w]].kind = "json"
         /\ CommentsPayload(messages[cur[w]].payload)
         /\ messages[cur[w]].payload.timestamp \in {"missing", "bad"}
         /\ trace[w] # <<>>)
        => /\ event[w].ok
           /\ trace[w][1] = Op("parse", 0, TRUE)
           /\ Len(trace[w]) = 1 => pc[w] = "get_automations"

\* C25: within one worker process messages are handled strictly one at a
\* time: a handling starts only when no message is in hand and nothing of a
\* previous pass is left, it takes the oldest prefetched message, and the
\* message in hand is given up only in the step of its ack or nack decision,
\* whatever the broker has delivered in the meantime.
C25_OneAtATime ==
    /\ [][\A w \in Workers :
            cur'[w] # cur[w] =>
                \/ /\ cur[w] = 0
                   /\ pc[w] = "idle"
                   /\ trace[w] = <<>>
                   /\ pendingDm[w] = <<>> /\ pendingReply[w] = <<>>
                   /\ buffer[w] # <<>>
                   /\ cur'[w] = Head(buffer[w])
                   /\ buffer'[w] = Tail(buffer[w])
                \/ /\ cur'[w] = 0
                   /\ Deciding(w)
                   /\ Len(decisions'[cur[w]]) = Len(decisions[cur[w]]) + 1]_vars
    /\ [](\A w \in Workers :
            /\ pc[w] = "idle" <=> cur[w] = 0
            /\ cur[w] # 0 =>
                   /\ queue[cur[w]] = "unacked"
                   /\ \A i \in 1..Len(buffer[w]) : buffer[w][i] # cur[w])

\* A DM dispatch is pending for the message in hand while the broker has
\* already delivered the next message to the same worker.
C25_Witness ==
    /\ cur[1] # 0
    /\ pc[1] = "send_dm"
    /\ buffer[1] # <<>>
    /\ buffer[1][1] # cur[1]
    /\ queue[buffer[1][1]] = "unacked"

\* Committed DM records with status Failed for a tuple.
CommittedFailed(aid, post, uid) ==
    {i \in 1..Len(dmLog) :
        /\ dmLog[i].automation_id = aid /\ dmLog[i].post_id = post
        /\ dmLog[i].commenter_user_id = uid /\ dmLog[i].status = "failed"}

\* The stored automation has something to send.
RowHasContent(row) ==
    \/ row.message_type = "text" /\ row.dm_message_template \notin {None, Some(<<>>)}
    \/ row.message_type = "carousel" /\ row.carousel_elements \notin {None, Some(<<>>)}

\* C26: a Failed DM record never suppresses a later delivery: with Failed
\* records and no Sent record for a tuple, the next triggering event of the
\* tuple dispatches the DM again and writes a further record; Failed records
\* accumulate while at most one Sent record is ever committed for the tuple.
C26_FailedNeverSuppresses ==
    /\ \A w \in Workers :
          (InPass(w) /\ pc[w] = "commit") =>
              \A k \in 1..Len(autos[w]) :
                  LET row == autos[w][k] IN
                  (/\ ~NotTriggered(row, event[w].comment_text)
                   /\ RowHasContent(row)
                   /\ CommittedFailed(row.id, event[w].media_id,
                                      event[w].commenter_id) # {}
                   /\ CommittedSent(row.id, event[w].media_id,
                                    event[w].commenter_id) = {})
                  => /\ CountOps(w, "send_dm", row.id) = 1
                     /\ Cardinality(PendingRows(pendingDm[w], row.id)) = 1
    /\ \A t \in Tuples : Cardinality(CommittedSent(t[1], t[2], t[3])) <= 1

\* After a committed Failed record of the tuple, a second comment of the same
\* commenter was dispatched successfully and its Sent record is flushed.
C26_Witness ==
    /\ InPass(1)
    /\ pc[1] = "commit"
    /\ CommittedFailed(1, "p1", "u1") # {}
    /\ CommittedSent(1, "p1", "u1") = {}
    /\ event[1].commenter_id = "u1"
    /\ HasOp(1, "send_dm", 1, TRUE)
    /\ \E k \in PendingRows(pendingDm[1], 1) : pendingDm[1][k].status = "sent"

C28_CreateRoundTrips ==
    (/\ call.fn = "create"
     /\ call.ret = "created"
     /\ call.data.message_type = "carousel")
        => /\ automations[call.id] # None
           /\ automations[call.id][1].message_type = "carousel"
           /\ automations[call.id][1].carousel_elements
                  = call.data.carousel_elements
           /\ has_content(automations[call.id][1])

\* A DM row with status Sent for the automation, post, commenter and
\* comment of the reply row r.
SentDmFor(r, d) ==
    /\ d.status = "sent"
    /\ d.automation_id = r.automation_id
    /\ d.post_id = r.post_id
    /\ d.commenter_user_id = r.commenter_user_id
    /\ d.comment_id = r.comment_id

\* C29: at every commit point each record of the reply log has a record of
\* the DM log with status Sent for the same automation, post, commenter and
\* comment id, and that DM record is written by the same pass: a commit
\* that adds reply rows adds their Sent DM rows in the same step.
C29_ReplyHasSentDm ==
    /\ [](\A i \in 1..Len(replyLog) :
            \E j \in 1..Len(dmLog) : SentDmFor(replyLog[i], dmLog[j]))
    /\ [][\A w \in Workers :
            Committing(w) =>
                \A i \in (Len(replyLog) + 1)..Len(replyLog') :
                    \E j \in (Len(dmLog) + 1)..Len(dmLog') :
                        SentDmFor(replyLog'[i], dmLog'[j])]_vars

\* A pass has committed a reply row, of a reply that failed, next to the
\* Sent DM row of the same comment.
C29_Witness ==
    \E w \in Workers :
        /\ pc[w] = "decide"
        /\ result[w] = "true"
        /\ \E i \in 1..Len(replyLog) :
              /\ replyLog[i].status = "failed"
              /\ replyLog[i].comment_id = event[w].comment_id
              /\ HasOp(w, "log_reply", replyLog[i].automation_id, TRUE)
              /\ \E j \in 1..Len(dmLog) : SentDmFor(replyLog[i], dmLog[j])

\* Automation `row` is due for a DM in the pass of worker w: its trigger is
\* met, it has content and no Sent record exists for its tuple.
DueInPass(w, row) ==
    /\ ~NotTriggered(row, event[w].comment_text)
    /\ RowHasContent(row)
    /\ CommittedSent(row.id, event[w].media_id, event[w].commenter_id) = {}

\* C30: deduplication is per automation.  In a pass that matched two
\* automations A1 and A2 for one event, a Sent record of A1's tuple, a failed
\* DM dispatch of A1 or a skip of A1 leaves A2 processed: when A2 is due, the
\* pass makes exactly one DM dispatch attempt for A2, and when both are due
\* it makes exactly one for each.
C30_DedupPerAutomation ==
    \A w \in Workers :
        (InPass(w) /\ pc[w] = "commit") =>
            \A k1, k2 \in 1..Len(autos[w]) :
                LET A1 == autos[w][k1]
                    A2 == autos[w][k2]
                IN (A1.id # A2.id /\ DueInPass(w, A2)) =>
                     /\ (\/ CommittedSent(A1.id, event[w].media_id,
                                          event[w].commenter_id) # {}
                         \/ HasOp(w, "send_dm", A1.id, FALSE)
                         \/ CountOps(w, "send_dm", A1.id) = 0)
                            => CountOps(w, "send_dm", A2.id) = 1
                     /\ DueInPass(w, A1)
                            => /\ CountOps(w, "send_dm", A1.id) = 1
                               /\ CountOps(w, "send_dm", A2.id) = 1

\* A pass that found a Sent record for one automation and skipped it has
\* dispatched the DM of the other automation matched for the same event.
C30_Witness ==
    \E w \in Workers :
        /\ InPass(w)
        /\ pc[w] = "commit"
        /\ \E k1, k2 \in 1..Len(autos[w]) :
              /\ autos[w][k1].id # autos[w][k2].id
              /\ CommittedSent(autos[w][k1].id, event[w].media_id,
                               event[w].commenter_id) # {}
              /\ CountOps(w, "send_dm", autos[w][k1].id) = 0
              /\ DueInPass(w, autos[w][k2])
              /\ CountOps(w, "send_dm", autos[w][k2].id) = 1

====
